---- MODULE Spec2Model ----
(***************************************************************************)
(* Model of android/app/src/main/cpp/audio_processor.cpp: the class        *)
(* AudioEngine, an oboe::AudioStreamCallback whose onAudioReady passes the *)
(* driver's buffer to processAudio and returns Continue.                   *)
(*                                                                         *)
(* The class declares processAudio, compressAudio and decompressAudio      *)
(* without bodies and has no data member.  The file holds no relay, no     *)
(* worker thread and no stop operation; compressAudio and decompressAudio  *)
(* are never called.  The model therefore has one thread, the driver's     *)
(* audio thread, which walks through onAudioReady statement by statement.  *)
(***************************************************************************)
EXTENDS Naturals, Sequences, FiniteSets

(* ----------------------------- bounds ---------------------------------- *)

\* Number of callbacks the driver makes in a run.
MaxCallbacks == 3

\* Number of distinct buffer addresses the driver recycles.
NumBuffers == 2

\* Largest frame count the driver passes; 0 is included.
MaxFrames == 1

\* Number of distinct stream handles.
NumStreams == 1

(* --------------------------- value domains ----------------------------- *)

Streams == 1..NumStreams

Addresses == 1..NumBuffers

FrameCounts == 0..MaxFrames

\* oboe::DataCallbackResult, the return type of onAudioReady.
Continue == "Continue"

Stop == "Stop"

\* The thread the driver runs onAudioReady on.
AudioThread == "audio"

\* The void* the driver passes: an address with the static type void.
VoidPtr(a) == [addr |-> a, type |-> "void"]

\* No buffer is lent to the callback.
NoBuffer == 0

\* No callback frame is live.
NoArgs == [audioStream |-> 0, audioData |-> VoidPtr(NoBuffer), numFrames |-> 0]

(* ------------------------------- state --------------------------------- *)

VARIABLES
    streamState,   \* "running" or "stopped": the driver's view of the stream
    pc,            \* the audio thread's position: "idle", "entered", "called"
    args,          \* the parameters of the live onAudioReady frame
    lent,          \* the address the driver has lent for the live callback
    delivered,     \* the callbacks the driver made, in order
    processCalls,  \* the processAudio calls made, in order
    accesses,      \* the accesses to driver buffers, in order
    signals        \* the values onAudioReady returned, in order

vars == <<streamState, pc, args, lent, delivered, processCalls, accesses, signals>>

\* The fields of the state and the values each takes.
TypeOK ==
    /\ streamState \in {"running", "stopped"}
    /\ pc \in {"idle", "entered", "called"}
    /\ args \in [audioStream : Streams \cup {0},
                 audioData : {VoidPtr(a) : a \in Addresses \cup {NoBuffer}},
                 numFrames : FrameCounts]
    /\ lent \in Addresses \cup {NoBuffer}
    /\ delivered \in Seq([audioStream : Streams,
                          audioData : {VoidPtr(a) : a \in Addresses},
                          numFrames : FrameCounts])
    /\ Len(processCalls) <= Len(delivered)
    /\ Len(accesses) <= Len(delivered)
    /\ signals \in Seq({Continue, Stop})

(* --------------------------- pure operators ---------------------------- *)

\* static_cast<float*>(audioData) with the address shifted: reads another buffer.
static_cast_float_Shifted(p) == [addr |-> (p.addr % NumBuffers) + 1, type |-> "float"]

\* static_cast<float*>(audioData): the same address, typed as float samples.
static_cast_float(p) == [addr |-> p.addr, type |-> "float"]

\* The returned signal replaced by Stop.
onAudioReadyResult_Stop == Stop

\* The value of the return statement of onAudioReady.
onAudioReadyResult == Continue

\* What a processAudio(data, frames) call does to the buffer it is given: it
\* uses `data` for `frames` frames while the call runs and keeps nothing.
processAudio(data, frames) == <<[addr |-> data.addr, frames |-> frames, owner |-> lent]>>

(* ------------------------------ actions -------------------------------- *)

Init ==
    /\ streamState = "running"
    /\ pc = "idle"
    /\ args = NoArgs
    /\ lent = NoBuffer
    /\ delivered = <<>>
    /\ processCalls = <<>>
    /\ accesses = <<>>
    /\ signals = <<>>

\* The driver has a buffer ready and invokes onAudioReady on the audio thread.
DriverInvoke(s, a, n) ==
    /\ pc = "idle"
    /\ streamState = "running"
    /\ Len(delivered) < MaxCallbacks
    /\ args' = [audioStream |-> s, audioData |-> VoidPtr(a), numFrames |-> n]
    /\ delivered' = Append(delivered, args')
    /\ lent' = a
    /\ pc' = "entered"
    /\ UNCHANGED <<streamState, processCalls, accesses, signals>>

\* onAudioReady returning when numFrames is 0 without calling processAudio.
onAudioReady_processAudio_SkipEmpty ==
    /\ pc = "entered"
    /\ IF args.numFrames = 0
         THEN UNCHANGED <<processCalls, accesses>>
         ELSE /\ processCalls' = Append(processCalls,
                    [data |-> static_cast_float(args.audioData),
                     frames |-> args.numFrames,
                     thread |-> AudioThread,
                     callback |-> Len(delivered)])
              /\ accesses' = accesses \o
                    processAudio(static_cast_float(args.audioData), args.numFrames)
    /\ pc' = "called"
    /\ UNCHANGED <<streamState, args, lent, delivered, signals>>

\* onAudioReady handing the pointer on and returning at once: the buffer is
\* used after the callback has given it back to the driver.
onAudioReady_processAudio_Deferred ==
    /\ pc = "entered"
    /\ processCalls' = Append(processCalls,
            [data |-> static_cast_float(args.audioData),
             frames |-> args.numFrames,
             thread |-> AudioThread,
             callback |-> Len(delivered)])
    /\ accesses' = Append(accesses,
            [addr |-> args.audioData.addr, frames |-> args.numFrames,
             owner |-> NoBuffer])
    /\ pc' = "called"
    /\ UNCHANGED <<streamState, args, lent, delivered, signals>>

\* processAudio(static_cast<float*>(audioData), numFrames); a synchronous
\* call on the calling thread, which is the audio thread.
onAudioReady_processAudio ==
    /\ pc = "entered"
    /\ processCalls' = Append(processCalls,
            [data |-> static_cast_float(args.audioData),
             frames |-> args.numFrames,
             thread |-> AudioThread,
             callback |-> Len(delivered)])
    /\ accesses' = accesses \o
            processAudio(static_cast_float(args.audioData), args.numFrames)
    /\ pc' = "called"
    /\ UNCHANGED <<streamState, args, lent, delivered, signals>>

\* return oboe::DataCallbackResult::Continue; the frame ends, the driver takes
\* its buffer back and acts on the signal (Stop stops the stream).
onAudioReady_return ==
    /\ pc = "called"
    /\ signals' = Append(signals, onAudioReadyResult)
    /\ streamState' = IF onAudioReadyResult = Stop THEN "stopped" ELSE streamState
    /\ args' = NoArgs
    /\ lent' = NoBuffer
    /\ pc' = "idle"
    /\ UNCHANGED <<delivered, processCalls, accesses>>

Next ==
    \/ \E s \in Streams, a \in Addresses, n \in FrameCounts : DriverInvoke(s, a, n)
    \/ onAudioReady_processAudio
    \/ onAudioReady_return

Spec == Init /\ [][Next]_vars

(* ------------------------------ claims --------------------------------- *)

\* Callbacks that have returned to the driver.
Returned == Len(delivered) - (IF pc = "idle" THEN 0 ELSE 1)

C3_ProcessedInDeliveryOrder ==
    /\ \A i, j \in 1..Len(processCalls) :
          i < j => processCalls[i].callback < processCalls[j].callback
    /\ \A i \in 1..Len(processCalls) :
          /\ processCalls[i].callback \in 1..Len(delivered)
          /\ processCalls[i].data.addr =
                delivered[processCalls[i].callback].audioData.addr
          /\ processCalls[i].frames =
                delivered[processCalls[i].callback].numFrames

\* C3 witness: buffer A was delivered before a different buffer B and both
\* have been processed.
C3_Witness ==
    /\ Len(processCalls) >= 2
    /\ delivered[1].audioData.addr # delivered[2].audioData.addr
    /\ processCalls[2].callback = 2

C9_NoProcessingOnAudioThread ==
    \A i \in 1..Len(processCalls) : processCalls[i].thread # AudioThread

\* C10: each callback makes exactly one processAudio call, with the address
\* the driver passed typed as float samples and with the same numFrames, and
\* the call is complete before the callback returns its signal: the k-th call
\* belongs to the k-th callback, and the number of calls is the number of
\* callbacks that are past the call statement.
C10_OneProcessCallPerCallback ==
    /\ Len(processCalls) = Len(delivered) - (IF pc = "entered" THEN 1 ELSE 0)
    /\ Len(signals) = Len(processCalls) - (IF pc = "called" THEN 1 ELSE 0)
    /\ \A i \in 1..Len(processCalls) :
          /\ processCalls[i].callback = i
          /\ processCalls[i].data =
                [addr |-> delivered[i].audioData.addr, type |-> "float"]
          /\ processCalls[i].frames = delivered[i].numFrames

\* C10 witness: k = 2 callbacks have returned, one with numFrames = 0, and
\* two processAudio calls have been made.
C10_Witness ==
    /\ pc = "idle"
    /\ Len(signals) = 2
    /\ Len(processCalls) = 2
    /\ \E i \in 1..2 : delivered[i].numFrames = 0

====
